---- MODULE Spec2Model ----
(***************************************************************************)
(* A model of biggan/training.py: the hinge losses, the two minimization   *)
(* wrappers' eager variant, and the training driver.                       *)
(*                                                                         *)
(* Tensors of scores are sequences of integers.  Real arithmetic is exact: *)
(* a scalar result is a fraction <<n, d>> in lowest terms with d > 0, so   *)
(* that x * (1.0 / b) and x / b are compared as numbers, not as text.      *)
(* A call ends in an outcome: [kind |-> "return", value |-> v] or          *)
(* [kind |-> "raise", error |-> e].                                        *)
(***************************************************************************)
EXTENDS Integers, Sequences, FiniteSets, TLC

\* ---------------------------------------------------------------- bounds
MaxLen == 2
MaxLogit == 3
MaxBatch == 2
NumVars == 2
MaxCalls == 2
MaxSteps == 6
MaxLogEvery == 3

\* Scores on both sides of the hinge's margin, at it, and far from it.
LogitValues == {0 - MaxLogit, 0 - 1, 0, 1, MaxLogit}
Tensors == UNION {[1..n -> LogitValues] : n \in 0..MaxLen}
BatchSizes == (0 - 1)..MaxBatch

\* ------------------------------------------------------------- outcomes
Return(v) == [kind |-> "return", value |-> v]
Raise(e) == [kind |-> "raise", error |-> e]
NoOutcome == [kind |-> "none"]

\* ------------------------------------------------------ exact fractions
Abs(x) == IF x < 0 THEN 0 - x ELSE x

RECURSIVE GCD(_, _)
GCD(a, b) == IF b = 0 THEN a ELSE GCD(b, a % b)

\* The number n / d (d # 0), in lowest terms with a positive denominator.
Frac(n, d) ==
    LET g == GCD(Abs(n), Abs(d))
        s == IF d < 0 THEN 0 - 1 ELSE 1
    IN  <<(s * n) \div g, (s * d) \div g>>

\* Python's float true division x / y of two numbers: 1.0 / 0 raises.
TrueDiv(x, y) ==
    IF y = 0 THEN Raise("ZeroDivisionError") ELSE Return(Frac(x, y))

\* The product of an integer-valued scalar and a fraction.
Scale(x, q) == Frac(x * q[1], q[2])

\* ------------------------------------------------------- tensor algebra
\* c + s * t, elementwise with the scalar c broadcast (1.0 - t, 1.0 + t).
affine(c, s, t) == [i \in DOMAIN t |-> c + s * t[i]]

\* relu left out: the hinge terms are not clamped at zero.
relu_missing(t) == t

relu(t) == [i \in DOMAIN t |-> IF t[i] > 0 THEN t[i] ELSE 0]

RECURSIVE reduce_sum(_)
reduce_sum(t) == IF t = <<>> THEN 0 ELSE Head(t) + reduce_sum(Tail(t))

\* ----------------------------------------------------------- hinge loss
\* ----------------------------------------------------------- hinge loss
\* The fake term's sign wrong: relu(1.0 - logits_fake).
discriminator_hinge_loss_fake_sign(logits_real_, logits_fake_, global_batch_size_) ==
    LET L_D == reduce_sum(relu(affine(1, 0 - 1, logits_real_)))
                 + reduce_sum(relu(affine(1, 0 - 1, logits_fake_)))
        inv == TrueDiv(1, global_batch_size_)
    IN  IF inv.kind = "raise" THEN inv ELSE Return(Scale(L_D, inv.value))

discriminator_hinge_loss(logits_real_, logits_fake_, global_batch_size_) ==
    LET L_D == reduce_sum(relu(affine(1, 0 - 1, logits_real_)))
                 + reduce_sum(relu(affine(1, 1, logits_fake_)))
        inv == TrueDiv(1, global_batch_size_)
    IN  IF inv.kind = "raise" THEN inv ELSE Return(Scale(L_D, inv.value))

\* The negation left out.
generator_hinge_loss_not_negated(logits_fake_, global_batch_size_) ==
    LET L_G == reduce_sum(logits_fake_)
        inv == TrueDiv(1, global_batch_size_)
    IN  IF inv.kind = "raise" THEN inv ELSE Return(Scale(L_G, inv.value))

generator_hinge_loss(logits_fake_, global_batch_size_) ==
    LET L_G == 0 - reduce_sum(logits_fake_)
        inv == TrueDiv(1, global_batch_size_)
    IN  IF inv.kind = "raise" THEN inv ELSE Return(Scale(L_G, inv.value))

\* The pair returned in the other order.
full_hinge_loss_swapped(logits_real_, logits_fake_, global_batch_size_) ==
    LET g == generator_hinge_loss(logits_fake_, global_batch_size_)
        d == discriminator_hinge_loss(logits_real_, logits_fake_, global_batch_size_)
    IN  IF g.kind = "raise" THEN g
        ELSE IF d.kind = "raise" THEN d
        ELSE Return(<<d.value, g.value>>)

\* The tuple's elements are evaluated left to right: the generator loss first.
full_hinge_loss(logits_real_, logits_fake_, global_batch_size_) ==
    LET g == generator_hinge_loss(logits_fake_, global_batch_size_)
        d == discriminator_hinge_loss(logits_real_, logits_fake_, global_batch_size_)
    IN  IF g.kind = "raise" THEN g
        ELSE IF d.kind = "raise" THEN d
        ELSE Return(<<g.value, d.value>>)

\* ------------------------------------------------- imperative_minimize
\* A loss function of the trainable variables: loss_fn() computes
\* const + SUM over i in deps of i * variables[i], so that the gradient with
\* respect to variable i is i when i is in deps, and the variable is absent
\* from the recorded computation otherwise.
InitialValues == 0..1

\* The lists of distinct variables a caller may pass as var_list.
VarLists ==
    {vl \in UNION {[1..n -> 1..NumVars] : n \in 0..NumVars} :
        \A j, k \in DOMAIN vl : j # k => vl[j] # vl[k]}

LossFns == [const : 0..1, deps : SUBSET (1..NumVars)]

RECURSIVE WeightedSum(_, _)
WeightedSum(S, v) ==
    IF S = {} THEN 0
    ELSE LET i == CHOOSE x \in S : TRUE
         IN  i * v[i] + WeightedSum(S \ {i}, v)

loss_fn(fn, v) == fn.const + WeightedSum(fn.deps, v)

\* Unconnected variables given a zero gradient instead of None.
tape_gradient_zeros(fn, var_list_) ==
    [k \in DOMAIN var_list_ |->
        IF var_list_[k] \in fn.deps THEN <<var_list_[k]>> ELSE <<0>>]

\* tape.gradient(loss, var_list): one entry per element of var_list, in its
\* order; <<g>> is the gradient g, <<>> is None (the variable is unconnected).
tape_gradient(fn, var_list_) ==
    [k \in DOMAIN var_list_ |->
        IF var_list_[k] \in fn.deps THEN <<var_list_[k]>> ELSE <<>>]

\* zip(a, b): pairs up to the shorter argument.
zip(a, b) ==
    [k \in 1..(IF Len(a) < Len(b) THEN Len(a) ELSE Len(b)) |-> <<a[k], b[k]>>]

\* One gradient-descent update (learning rate 1) of the paired variables.
RECURSIVE sgd_update(_, _)
sgd_update(pairs, v) ==
    IF pairs = <<>> THEN v
    ELSE LET g == Head(pairs)[1][1]
             x == Head(pairs)[2]
         IN  sgd_update(Tail(pairs), [v EXCEPT ![x] = v[x] - g])

\* tf.keras Optimizer.apply_gradients on (gradient, variable) pairs: pairs
\* whose gradient is None are dropped; an empty list of pairs is a no-op; a
\* non-empty list in which every gradient is None is rejected with ValueError
\* ("No gradients provided for any variable").  The result is the outcome and
\* the optimizer-and-variables state after the call.
apply_gradients(pairs, v, iters) ==
    LET filtered == SelectSeq(pairs, LAMBDA p : p[1] # <<>>)
    IN  IF pairs = <<>> THEN
            [outcome |-> Return("no_op"), variables |-> v, iterations |-> iters]
        ELSE IF filtered = <<>> THEN
            [outcome |-> Raise("ValueError"), variables |-> v, iterations |-> iters]
        ELSE
            [outcome |-> Return("apply_op"), variables |-> sgd_update(filtered, v),
             iterations |-> iters + 1]

\* imperative_minimize(optimizer, loss_fn, var_list): the loss is evaluated
\* under the tape (before any update), the gradients are paired with
\* var_list, the optimizer applies them, and the loss is returned.
imperative_minimize(fn, var_list_, v, iters) ==
    LET loss == loss_fn(fn, v)
        grad_ == tape_gradient(fn, var_list_)
        applied == apply_gradients(zip(grad_, var_list_), v, iters)
    IN  [grad |-> grad_,
         variables |-> applied.variables,
         iterations |-> applied.iterations,
         outcome |-> IF applied.outcome.kind = "raise" THEN applied.outcome
                     ELSE Return(loss)]

\* ---------------------------------------------------------- train_model
\* An optional value: <<>> is None / unset, <<x>> is x.
None == <<>>
Some(x) == <<x>>

\* Python's x or 0 for an optional integer: None and 0 are falsy.
or0(x) == IF x = None \/ x = Some(0) THEN 0 ELSE x[1]

\* Python's integer floor division a // b (b >= 0 here): // 0 raises.
FloorDiv(a, b) ==
    IF b = 0 THEN Raise("ZeroDivisionError") ELSE Return(a \div b)

\* initial_epoch given the step, not the epoch it falls in.
fit_arguments_step_as_epoch(callbacks_, num_steps_, log_every_, initial_step_) ==
    LET epochs_ == FloorDiv(num_steps_, log_every_)
    IN  IF epochs_.kind = "raise" THEN epochs_
        ELSE Return([callbacks |-> callbacks_,
                     epochs |-> epochs_.value,
                     steps_per_epoch |-> log_every_,
                     initial_epoch |-> or0(initial_step_)])

\* The keyword arguments train_model computes for model.fit.
fit_arguments(callbacks_, num_steps_, log_every_, initial_step_) ==
    LET epochs_ == FloorDiv(num_steps_, log_every_)
        initial_epoch_ == FloorDiv(or0(initial_step_), log_every_)
    IN  IF epochs_.kind = "raise" THEN epochs_
        ELSE IF initial_epoch_.kind = "raise" THEN initial_epoch_
        ELSE Return([callbacks |-> callbacks_,
                     epochs |-> epochs_.value,
                     steps_per_epoch |-> log_every_,
                     initial_epoch |-> initial_epoch_.value])

\* ---------------------------------------------------------------- state
VARIABLES
    mode,               \* which entry point this run exercises
    \* hinge losses
    logits_real, logits_fake, global_batch_size,   \* the loss call's arguments
    called,             \* the loss function called, "" before the call
    outcome,            \* how that call ended
    \* imperative_minimize
    variables,          \* the value of each tf.Variable
    iterations,         \* the optimizer's state: its count of applied updates
    var_list,           \* the last call's var_list
    min_fn,             \* the last call's loss_fn
    before,             \* the variables' values when the last call began
    grad,               \* the gradients the last call computed
    min_outcome,        \* how the last call ended
    calls,              \* the number of calls made
    \* train_model
    pc,                 \* train_model's position
    model,              \* the model object passed in
    model_dir,
    num_steps, log_every, initial_step,
    data_batch,         \* data.element_spec[0].shape[0]
    model_gbs,          \* model.global_batch_size: None until assigned
    callbacks,          \* the local callbacks: None until created
    fit_args,           \* the arguments model.fit was invoked with
    epoch, step,        \* model.fit's loop counters
    executed,           \* the global indices of the training steps fit ran
    events,             \* the calls on the model, in order
    tm_outcome          \* how train_model ended

lossVars == <<logits_real, logits_fake, global_batch_size, called, outcome>>

minVars == <<variables, iterations, var_list, min_fn, before, grad, min_outcome, calls>>

trainVars == <<pc, model, model_dir, num_steps, log_every, initial_step, data_batch,
               model_gbs, callbacks, fit_args, epoch, step, executed, events,
               tm_outcome>>

vars == <<mode, lossVars, minVars, trainVars>>

Init ==
    /\ mode = "idle"
    /\ logits_real = <<>>
    /\ logits_fake = <<>>
    /\ global_batch_size = 1
    /\ called = ""
    /\ outcome = NoOutcome
    /\ variables = [i \in 1..NumVars |-> 0]
    /\ iterations = 0
    /\ var_list = <<>>
    /\ min_fn = [const |-> 0, deps |-> {}]
    /\ before = [i \in 1..NumVars |-> 0]
    /\ grad = <<>>
    /\ min_outcome = NoOutcome
    /\ calls = 0
    /\ pc = "idle"
    /\ model = ""
    /\ model_dir = ""
    /\ num_steps = 0
    /\ log_every = 0
    /\ initial_step = None
    /\ data_batch = 1
    /\ model_gbs = None
    /\ callbacks = None
    /\ fit_args = None
    /\ epoch = 0
    /\ step = 0
    /\ executed = {}
    /\ events = <<>>
    /\ tm_outcome = NoOutcome

\* ---------------------------------------------------- hinge loss calls
CallDiscriminator ==
    /\ mode = "idle"
    /\ \E r \in Tensors, f \in Tensors, b \in BatchSizes :
        /\ logits_real' = r
        /\ logits_fake' = f
        /\ global_batch_size' = b
        /\ outcome' = discriminator_hinge_loss(r, f, b)
    /\ called' = "discriminator_hinge_loss"
    /\ mode' = "loss"
    /\ UNCHANGED <<minVars, trainVars>>

CallGenerator ==
    /\ mode = "idle"
    /\ \E f \in Tensors, b \in BatchSizes :
        /\ logits_fake' = f
        /\ global_batch_size' = b
        /\ outcome' = generator_hinge_loss(f, b)
    /\ logits_real' = <<>>
    /\ called' = "generator_hinge_loss"
    /\ mode' = "loss"
    /\ UNCHANGED <<minVars, trainVars>>

CallFull ==
    /\ mode = "idle"
    /\ \E r \in Tensors, f \in Tensors, b \in BatchSizes :
        /\ logits_real' = r
        /\ logits_fake' = f
        /\ global_batch_size' = b
        /\ outcome' = full_hinge_loss(r, f, b)
    /\ called' = "full_hinge_loss"
    /\ mode' = "loss"
    /\ UNCHANGED <<minVars, trainVars>>

\* ------------------------------------------------- minimization calls
\* The trainable variables are created with some initial values.
BuildVariables ==
    /\ mode = "idle"
    /\ mode' = "minimize"
    /\ variables' \in [1..NumVars -> InitialValues]
    /\ UNCHANGED <<iterations, var_list, min_fn, before, grad, min_outcome, calls>>
    /\ UNCHANGED <<lossVars, trainVars>>

\* One training step's call; a raised error ends the run.
CallImperativeMinimize ==
    /\ mode = "minimize"
    /\ calls < MaxCalls
    /\ min_outcome.kind # "raise"
    /\ \E fn \in LossFns, vl \in VarLists :
        LET r == imperative_minimize(fn, vl, variables, iterations)
        IN  /\ min_fn' = fn
            /\ var_list' = vl
            /\ grad' = r.grad
            /\ variables' = r.variables
            /\ iterations' = r.iterations
            /\ min_outcome' = r.outcome
    /\ before' = variables
    /\ calls' = calls + 1
    /\ UNCHANGED <<mode, lossVars, trainVars>>

\* ------------------------------------------------------------ train_model
Models == {"model_a", "model_b"}
ModelDirs == {"dir_a", "dir_b"}
StepCounts == 0..MaxSteps
LogIntervals == 0..MaxLogEvery
InitialSteps == {None} \cup {Some(k) : k \in StepCounts}
BatchDims == 1..MaxBatch

\* train_model(model=, data=, model_dir=, num_steps=, log_every=, initial_step=)
\* is entered.
CallTrainModel ==
    /\ mode = "idle"
    /\ mode' = "train"
    /\ pc' = "create_callbacks"
    /\ model' \in Models
    /\ model_dir' \in ModelDirs
    /\ num_steps' \in StepCounts
    /\ log_every' \in LogIntervals
    /\ initial_step' \in InitialSteps
    /\ data_batch' \in BatchDims
    /\ UNCHANGED <<model_gbs, callbacks, fit_args, epoch, step, executed, events,
                   tm_outcome>>
    /\ UNCHANGED <<lossVars, minVars>>

\* callbacks = model.create_callbacks(model_dir)
CreateCallbacks ==
    /\ pc = "create_callbacks"
    /\ callbacks' = Some([made_by |-> model, dir |-> model_dir])
    /\ events' = Append(events, "create_callbacks")
    /\ pc' = "set_global_batch_size"
    /\ UNCHANGED <<mode, model, model_dir, num_steps, log_every, initial_step,
                   data_batch, model_gbs, fit_args, epoch, step, executed, tm_outcome>>
    /\ UNCHANGED <<lossVars, minVars>>

\* The assignment left out.
SetGlobalBatchSize_missing ==
    /\ pc = "set_global_batch_size"
    /\ pc' = "call_fit"
    /\ UNCHANGED <<mode, model, model_dir, num_steps, log_every, initial_step,
                   data_batch, model_gbs, callbacks, fit_args, epoch, step, executed,
                   events, tm_outcome>>
    /\ UNCHANGED <<lossVars, minVars>>

\* model.global_batch_size = data.element_spec[0].shape[0]
SetGlobalBatchSize ==
    /\ pc = "set_global_batch_size"
    /\ model_gbs' = Some(data_batch)
    /\ events' = Append(events, "set_global_batch_size")
    /\ pc' = "call_fit"
    /\ UNCHANGED <<mode, model, model_dir, num_steps, log_every, initial_step,
                   data_batch, callbacks, fit_args, epoch, step, executed, tm_outcome>>
    /\ UNCHANGED <<lossVars, minVars>>

\* model.fit(data, callbacks=..., epochs=..., steps_per_epoch=...,
\* initial_epoch=...): the arguments are evaluated, and fit is entered only
\* when none of them raised.
CallFit ==
    /\ pc = "call_fit"
    /\ LET a == fit_arguments(callbacks[1], num_steps, log_every, initial_step)
       IN  IF a.kind = "raise"
           THEN /\ tm_outcome' = a
                /\ pc' = "raised"
                /\ UNCHANGED <<fit_args, epoch, step, events>>
           ELSE /\ fit_args' = Some(a.value)
                /\ epoch' = a.value.initial_epoch
                /\ step' = 0
                /\ events' = Append(events, "fit")
                /\ pc' = "fit"
                /\ UNCHANGED tm_outcome
    /\ UNCHANGED <<mode, model, model_dir, num_steps, log_every, initial_step,
                   data_batch, model_gbs, callbacks, executed>>
    /\ UNCHANGED <<lossVars, minVars>>

\* Inside model.fit: one training step of the current epoch.
FitTrainStep ==
    /\ pc = "fit"
    /\ epoch < fit_args[1].epochs
    /\ step < fit_args[1].steps_per_epoch
    /\ executed' = executed \cup {epoch * fit_args[1].steps_per_epoch + step}
    /\ step' = step + 1
    /\ UNCHANGED <<mode, pc, model, model_dir, num_steps, log_every, initial_step,
                   data_batch, model_gbs, callbacks, fit_args, epoch, events,
                   tm_outcome>>
    /\ UNCHANGED <<lossVars, minVars>>

\* Inside model.fit: the epoch's steps are done; the callbacks run and the
\* next epoch begins.
FitEpochEnd ==
    /\ pc = "fit"
    /\ epoch < fit_args[1].epochs
    /\ step = fit_args[1].steps_per_epoch
    /\ epoch' = epoch + 1
    /\ step' = 0
    /\ UNCHANGED <<mode, pc, model, model_dir, num_steps, log_every, initial_step,
                   data_batch, model_gbs, callbacks, fit_args, executed, events,
                   tm_outcome>>
    /\ UNCHANGED <<lossVars, minVars>>

\* model.fit returns once no epoch is left.
FitReturn ==
    /\ pc = "fit"
    /\ epoch >= fit_args[1].epochs
    /\ pc' = "return"
    /\ UNCHANGED <<mode, model, model_dir, num_steps, log_every, initial_step,
                   data_batch, model_gbs, callbacks, fit_args, epoch, step, executed,
                   events, tm_outcome>>
    /\ UNCHANGED <<lossVars, minVars>>

\* return model
ReturnModel ==
    /\ pc = "return"
    /\ tm_outcome' = Return(model)
    /\ events' = Append(events, "return")
    /\ pc' = "done"
    /\ UNCHANGED <<mode, model, model_dir, num_steps, log_every, initial_step,
                   data_batch, model_gbs, callbacks, fit_args, epoch, step, executed>>
    /\ UNCHANGED <<lossVars, minVars>>

\* ---------------------------------------------------------- specification
Next ==
    \/ CallDiscriminator
    \/ CallGenerator
    \/ CallFull
    \/ BuildVariables
    \/ CallImperativeMinimize
    \/ CallTrainModel
    \/ CreateCallbacks
    \/ SetGlobalBatchSize
    \/ CallFit
    \/ FitTrainStep
    \/ FitEpochEnd
    \/ FitReturn
    \/ ReturnModel

Spec == Init /\ [][Next]_vars

\* =============================================================== properties
\* The statements below are written without the operators the model computes
\* with: sums run over indices, max is spelled out, and a quotient n / d is
\* recognised by cross-multiplication.
Max(a, b) == IF a >= b THEN a ELSE b

RECURSIVE SumOfHinges(_, _, _)
\* SUM over i in 1..n of max(0, 1 + s * t[i])
SumOfHinges(t, s, n) ==
    IF n = 0 THEN 0 ELSE SumOfHinges(t, s, n - 1) + Max(0, 1 + s * t[n])

RECURSIVE SumOfElements(_, _)
\* SUM over i in 1..n of t[i]
SumOfElements(t, n) == IF n = 0 THEN 0 ELSE SumOfElements(t, n - 1) + t[n]

\* The fraction q is the number x / b (b # 0).
IsQuotient(q, x, b) == q[2] > 0 /\ q[1] * b = x * q[2]

HingeTotal(r, f) ==
    SumOfHinges(r, 0 - 1, Len(r)) + SumOfHinges(f, 1, Len(f))

\* C1: for every logits_real, logits_fake and positive global_batch_size,
\* discriminator_hinge_loss returns
\* (sum max(0, 1 - logits_real) + sum max(0, 1 + logits_fake)) / global_batch_size;
\* [0], [0], 1 gives 2 and [1], [-1], 1 gives 0.
C1_DiscriminatorLossValue ==
    (called = "discriminator_hinge_loss" /\ global_batch_size > 0) =>
        /\ outcome.kind = "return"
        /\ IsQuotient(outcome.value, HingeTotal(logits_real, logits_fake),
                      global_batch_size)
        /\ (logits_real = <<0>> /\ logits_fake = <<0>> /\ global_batch_size = 1)
              => outcome.value = <<2, 1>>
        /\ (logits_real = <<1>> /\ logits_fake = <<0 - 1>> /\ global_batch_size = 1)
              => outcome.value = <<0, 1>>

\* A call with clamped and unclamped terms on both sides and a divisor of 2:
\* (0 + 1 + 0 + 2) / 2.
C1_Witness ==
    /\ called = "discriminator_hinge_loss"
    /\ logits_real = <<3, 0>>
    /\ logits_fake = <<0 - 3, 1>>
    /\ global_batch_size = 2
    /\ outcome = Return(<<3, 2>>)

\* C2: for every logits_fake and positive global_batch_size,
\* generator_hinge_loss returns -sum(logits_fake) / global_batch_size;
\* [3, -3] with 1 gives 0.
C2_GeneratorLossValue ==
    (called = "generator_hinge_loss" /\ global_batch_size > 0) =>
        /\ outcome.kind = "return"
        /\ IsQuotient(outcome.value, 0 - SumOfElements(logits_fake, Len(logits_fake)),
                      global_batch_size)
        /\ (logits_fake = <<3, 0 - 3>> /\ global_batch_size = 1)
              => outcome.value = <<0, 1>>

\* The call on [3, -3] with global_batch_size 1.
C2_Witness ==
    /\ called = "generator_hinge_loss"
    /\ logits_fake = <<3, 0 - 3>>
    /\ global_batch_size = 1
    /\ outcome = Return(<<0, 1>>)

\* C3: for positive global_batch_size, full_hinge_loss returns the pair
\* (generator loss, discriminator loss), in that order, each the value of the
\* separate call on the same arguments.
C3_FullIsPairOfSeparateCalls ==
    (called = "full_hinge_loss" /\ global_batch_size > 0) =>
        /\ outcome.kind = "return"
        /\ Len(outcome.value) = 2
        /\ Return(outcome.value[1]) =
              generator_hinge_loss(logits_fake, global_batch_size)
        /\ Return(outcome.value[2]) =
              discriminator_hinge_loss(logits_real, logits_fake, global_batch_size)
        /\ IsQuotient(outcome.value[1],
                      0 - SumOfElements(logits_fake, Len(logits_fake)),
                      global_batch_size)
        /\ IsQuotient(outcome.value[2], HingeTotal(logits_real, logits_fake),
                      global_batch_size)

\* A call whose two losses differ: generator -1, discriminator 1 + 2.
C3_Witness ==
    /\ called = "full_hinge_loss"
    /\ logits_real = <<0>>
    /\ logits_fake = <<1>>
    /\ global_batch_size = 1
    /\ outcome = Return(<< <<0 - 1, 1>>, <<3, 1>> >>)

\* C4: for every global_batch_size that is zero or negative, each of the three
\* hinge loss functions ends in an InvalidArgument error and returns no value.
C4_NonPositiveBatchSizeRejected ==
    (mode = "loss" /\ global_batch_size <= 0) =>
        outcome = Raise("InvalidArgument")

\* C7: for all logits_real, logits_fake and positive global_batch_size, the
\* value discriminator_hinge_loss returns is greater than or equal to 0.
C7_DiscriminatorLossNonNegative ==
    (called = "discriminator_hinge_loss" /\ global_batch_size > 0) =>
        /\ outcome.kind = "return"
        /\ outcome.value[2] > 0
        /\ outcome.value[1] >= 0

\* A call with scores beyond the margin on both sides, where the unclamped
\* terms would sum to a negative number: all three terms clamp to 0 but one.
C7_Witness ==
    /\ called = "discriminator_hinge_loss"
    /\ logits_real = <<3, 3>>
    /\ logits_fake = <<0 - 3, 0>>
    /\ global_batch_size = 1
    /\ outcome = Return(<<1, 1>>)

\* The floor of a / b for a >= 0 and b > 0, by its defining inequalities.
Floor(a, b) == CHOOSE q \in 0..a : q * b <= a /\ a < (q + 1) * b

\* model.fit has been invoked by this run of train_model.
FitInvoked == fit_args # None

\* C5: for num_steps >= 0, initial_step >= 0 and positive log_every, train_model
\* calls fit with epochs = floor(num_steps / log_every), steps_per_epoch =
\* log_every and initial_epoch = floor(initial_step / log_every).
C5_FitSchedule ==
    /\ (mode = "train" /\ pc \in {"fit", "return", "done"}) => FitInvoked
    /\ (FitInvoked /\ initial_step # None) =>
        /\ log_every > 0
        /\ fit_args[1].epochs = Floor(num_steps, log_every)
        /\ fit_args[1].steps_per_epoch = log_every
        /\ fit_args[1].initial_epoch = Floor(initial_step[1], log_every)

\* The scaled-down resumed schedule: 6 steps logged every 3, resumed at step 3,
\* is 2 epochs starting at epoch 1 (as 100 / 10 from 50 is 10 from 5).
C5_Witness ==
    /\ pc = "fit"
    /\ num_steps = 6
    /\ log_every = 3
    /\ initial_step = Some(3)
    /\ fit_args[1].epochs = 2
    /\ fit_args[1].steps_per_epoch = 3
    /\ fit_args[1].initial_epoch = 1

\* C6: train_model called with log_every = 0 ends in an InvalidArgument error
\* surfaced to the caller; fit is not run and no model is returned.
C6_ZeroLogEveryIsInvalidArgument ==
    (mode = "train" /\ log_every = 0) =>
        /\ ~FitInvoked
        /\ executed = {}
        /\ tm_outcome.kind # "return"
        /\ pc \notin {"fit", "return", "done"}
        /\ pc = "raised" => tm_outcome = Raise("InvalidArgument")

TrainModelEvents == <<"create_callbacks", "set_global_batch_size", "fit", "return">>

\* C9: with positive log_every, train_model calls model.create_callbacks once,
\* then assigns model.global_batch_size once (the dataset's leading batch
\* dimension), then invokes model.fit once with those callbacks, then returns
\* the same model; fit is never invoked while global_batch_size is unset.
C9_TrainModelOrder ==
    /\ events = SubSeq(TrainModelEvents, 1, Len(events))
    /\ FitInvoked =>
        /\ model_gbs = Some(data_batch)
        /\ callbacks = Some([made_by |-> model, dir |-> model_dir])
        /\ fit_args[1].callbacks = callbacks[1]
    /\ (mode = "train" /\ log_every > 0) => pc # "raised"
    /\ pc = "done" =>
        /\ events = TrainModelEvents
        /\ tm_outcome = Return(model)

\* A completed run with a positive interval.
C9_Witness ==
    /\ pc = "done"
    /\ log_every = 2
    /\ num_steps = 4
    /\ data_batch = 2
    /\ model_gbs = Some(2)
    /\ events = TrainModelEvents
    /\ tm_outcome = Return(model)

\* C10: for positive log_every, fit runs exactly
\* max(0, floor(num_steps/log_every) - floor(initial_step/log_every)) * log_every
\* steps, the steps floor(initial_step/log_every) * log_every up to (not
\* including) floor(num_steps/log_every) * log_every: never past num_steps,
\* short of it by num_steps mod log_every, starting initial_step mod log_every
\* steps before initial_step, and none when the first floor is not the larger.
C10_StepsRun ==
    (FitInvoked /\ initial_step # None) =>
        LET E == Floor(num_steps, log_every)
            I == Floor(initial_step[1], log_every)
            first == initial_step[1] - (initial_step[1] % log_every)
            last == num_steps - (num_steps % log_every)
        IN  /\ \A s \in executed : first <= s /\ s < last /\ s < num_steps
            /\ pc \in {"return", "done"} =>
                /\ Cardinality(executed) = Max(0, E - I) * log_every
                /\ executed = first..(last - 1)
                /\ I >= E => executed = {}
                /\ I < E => \A s \in first..(initial_step[1] - 1) : s \in executed

\* A resumed run: 5 steps logged every 2, resumed at step 3, runs steps 2 and 3
\* (one step re-executed, one step short of num_steps).
C10_Witness ==
    /\ pc = "done"
    /\ num_steps = 5
    /\ log_every = 2
    /\ initial_step = Some(3)
    /\ executed = {2, 3}

====
